---- MODULE Spec2Model ----
(***************************************************************************)
(* The ZephyrSys C runtime shims: posix_memalign and getentropy (Stubs.c)  *)
(* and msleep (Time.c), as a state machine over the process state the      *)
(* shims read and write across calls: errno and the state of the C         *)
(* library's generator behind rand().  The output slot and the buffer are  *)
(* the caller's, handed in with each call.                                 *)
(*                                                                         *)
(* The three primitives the shims are linked against (aligned_alloc, rand, *)
(* k_msleep) are not part of the repository.  They are modelled as the     *)
(* environment: aligned_alloc and k_msleep choose their outcome            *)
(* nondeterministically, rand is a deterministic generator whose output    *)
(* sequence is chosen, once, in Init.                                      *)
(***************************************************************************)
EXTENDS Integers, Sequences, FiniteSets, TLC

VARIABLES
  errno,      \* the C library's error code (errno.h), read and written by the shims
  randSeq,    \* the platform's generator: the values rand() cycles through
  randState,  \* the generator's hidden state: the position in randSeq
  call        \* the last completed call: what it was given, did and returned

vars == <<errno, randSeq, randState, call>>

(***************************** program constants ***************************)
NULL == 0
EINVAL == 22
EntropyMax == 256
ByteMod == 256
PtrSize == 4
Int32Max == 2147483647

(********************************* bounds **********************************)
SmallLen == 2      \* getentropy lengths 0..SmallLen, besides the limit and beyond
BufSlack == 1      \* bytes of the caller's buffer past the largest legal length
RandPeriod == 2    \* number of states of the platform's generator
MaxBlocks == 1     \* addresses the allocator may hand out per alignment
SleepJitter == 1   \* how far past the deadline a full sleep may wake

Int32Min == -Int32Max - 1
RAND_MAX == Int32Max
RandSeed == 0

BufCap == EntropyMax + BufSlack
BufIdx == 0 .. (BufCap - 1)

\* what the callers pass
Alignments == {3, 8, 16}
Sizes == {1, 64}
Slots == {NULL, 1}
Lengths == (0 .. SmallLen) \cup {EntropyMax, EntropyMax + 1}
BufferArgs == {NULL, 4096}
CallerBuffer == [i \in BufIdx |-> 170]
Durations == {Int32Min, -1, 0, 1, 2, Int32Max}

\* what the environment produces
RandVals == {0, 257, RAND_MAX}
AllocErrnos == {12, EINVAL}

NoCall == [op |-> "none", args |-> <<>>, ret |-> 0, prims |-> <<>>, writes |-> <<>>,
           before |-> 0, after |-> 0, entryErrno |-> 0, entryRand |-> RandSeed,
           elapsed |-> 0]

(************************* the linked primitives ***************************)
RECURSIVE IsPow2(_)
IsPow2(n) == IF n <= 0 THEN FALSE
             ELSE IF n = 1 THEN TRUE
             ELSE n % 2 = 0 /\ IsPow2(n \div 2)

ValidAlignment(alignment) == IsPow2(alignment) /\ alignment % PtrSize = 0

\* aligned_alloc(alignment, size): a block of the given alignment, or NULL.
\* err is the value it assigns to errno, 0 when it leaves errno alone.
aligned_alloc(alignment, size) ==
  {[p |-> alignment * k, err |-> 0] : k \in {j \in 1 .. MaxBlocks : ValidAlignment(alignment)}}
  \cup {[p |-> NULL, err |-> e] : e \in AllocErrnos \cup {0}}

\* rand(): the next value of the generator and the state it moves to.
rand(rs) == [val |-> randSeq[rs], next |-> (rs + 1) % RandPeriod]

Max(a, b) == IF a >= b THEN a ELSE b

\* k_msleep(ms): sleeps Max(ms, 0) milliseconds; a full sleep returns 0, a
\* sleep woken early returns the time that was left.
k_msleep(ms) ==
  LET d == Max(ms, 0) IN
  {[ret |-> 0, elapsed |-> d + j] : j \in {x \in 0 .. SleepJitter : d <= Int32Max - x}}
  \cup {[ret |-> d - e, elapsed |-> e] : e \in {x \in {0, 1, d - 1} : 0 <= x /\ x < d}}

(******************************* posix_memalign ****************************)
\* a shim that tries the allocation a second time
posix_memalign_calls_retry(alignment, size) == << <<alignment, size>>, <<alignment, size>> >>

\* the aligned_alloc calls one posix_memalign call makes
posix_memalign_calls(alignment, size) == << <<alignment, size>> >>

posix_memalign_ret(p, e) == IF p # NULL THEN 0 ELSE e

\* a shim that assigns its own copy of the pointer, never the caller's slot
posix_memalign_slot_unwritten(slot, p) == slot

posix_memalign_slot(slot, p) == IF p # NULL THEN p ELSE slot

PosixMemalign ==
  \E slot \in Slots, alignment \in Alignments, size \in Sizes :
    LET attempts == posix_memalign_calls(alignment, size)
        a == attempts[Len(attempts)]
    IN \E o \in aligned_alloc(a[1], a[2]) :
         LET e == IF o.err # 0 THEN o.err ELSE errno IN
         /\ errno' = e
         /\ call' = [op |-> "posix_memalign", args |-> <<alignment, size>>,
                     ret |-> posix_memalign_ret(o.p, e),
                     prims |-> [i \in 1 .. Len(attempts) |->
                                  [args |-> attempts[i], p |-> o.p, err |-> o.err]],
                     writes |-> <<>>,
                     before |-> slot, after |-> posix_memalign_slot(slot, o.p),
                     entryErrno |-> errno, entryRand |-> randState, elapsed |-> 0]
         /\ UNCHANGED <<randSeq, randState>>

(********************************* getentropy ******************************)
\* a length check that is off by one: 256 itself is refused
getentropy_valid_below(buf, length) == ~(buf = NULL \/ length >= EntropyMax)

\* a check of the length alone
getentropy_valid_length(buf, length) == ~(length > EntropyMax)

getentropy_valid(buf, length) == ~(buf = NULL \/ length > EntropyMax)

\* a byte that keeps seven bits of the value only
FillByte_7bit(r) == (r % 128) % 256

FillByte(r) == (r % ByteMod) % 256

\* one iteration of the loop: buf[i] = rand() % 256
getentropy_body(i, st) ==
  LET r == rand(st.rs) IN
  [buf |-> [st.buf EXCEPT ![i] = FillByte(r.val)],
   rs |-> r.next,
   prims |-> Append(st.prims, r.val),
   writes |-> Append(st.writes, i)]

\* the for loop of getentropy, iterations lo .. hi-1 in increasing order.  The
\* range is halved so that the evaluation stack stays shallow; the test on
\* first.rs only makes the first half be evaluated before the second starts.
RECURSIVE getentropy_loop(_, _, _)
getentropy_loop(lo, hi, st) ==
  IF lo >= hi THEN st
  ELSE IF hi - lo = 1 THEN getentropy_body(lo, st)
  ELSE LET mid == lo + ((hi - lo) \div 2)
           first == getentropy_loop(lo, mid, st)
       IN IF first.rs >= 0 THEN getentropy_loop(mid, hi, first) ELSE first

\* the whole call: what it returns, and errno, the buffer and the generator after it
getentropy(buf, length, mem, rs, err) ==
  IF ~getentropy_valid(buf, length)
  THEN [ret |-> -1, errno |-> EINVAL, buf |-> mem, rs |-> rs,
        prims |-> <<>>, writes |-> <<>>]
  ELSE LET st == getentropy_loop(0, length,
                   [buf |-> mem, rs |-> rs, prims |-> <<>>, writes |-> <<>>])
       IN [ret |-> 0, errno |-> err, buf |-> st.buf, rs |-> st.rs,
           prims |-> st.prims, writes |-> st.writes]

GetEntropy ==
  \E buf \in BufferArgs, length \in Lengths :
    \E r \in {getentropy(buf, length, CallerBuffer, randState, errno)} :
    /\ errno' = r.errno
    /\ randState' = r.rs
    /\ call' = [op |-> "getentropy", args |-> <<buf, length>>, ret |-> r.ret,
                prims |-> r.prims, writes |-> r.writes,
                before |-> CallerBuffer, after |-> r.buf,
                entryErrno |-> errno, entryRand |-> randState, elapsed |-> 0]
    /\ UNCHANGED randSeq

(*********************************** msleep ********************************)
\* a shim that clamps a negative duration before the call
msleep_calls_clamped(ms) == <<Max(ms, 0)>>

\* the k_msleep calls one msleep call makes
msleep_calls(ms) == <<ms>>

\* a shim that drops the status of k_msleep
msleep_ret_dropped(r) == 0

msleep_ret(r) == r

Msleep ==
  \E ms \in Durations :
    LET sleeps == msleep_calls(ms) IN
    \E o \in k_msleep(sleeps[Len(sleeps)]) :
      /\ call' = [op |-> "msleep", args |-> <<ms>>, ret |-> msleep_ret(o.ret),
                  prims |-> [i \in 1 .. Len(sleeps) |-> [args |-> sleeps[i], ret |-> o.ret]],
                  writes |-> <<>>, before |-> 0, after |-> 0,
                  entryErrno |-> errno, entryRand |-> randState,
                  elapsed |-> o.elapsed]
      /\ UNCHANGED <<errno, randSeq, randState>>

(****************************** specification ******************************)
Init ==
  /\ errno = 0
  /\ randSeq \in [0 .. (RandPeriod - 1) -> RandVals]
  /\ randState = RandSeed
  /\ call = NoCall

Next == PosixMemalign \/ GetEntropy \/ Msleep

Spec == Init /\ [][Next]_vars

(********************************* properties ******************************)
IsAlloc == call.op = "posix_memalign"
IsEntropy == call.op = "getentropy"
IsSleep == call.op = "msleep"

\* the outcome of the (last) aligned_alloc call of the last posix_memalign call
Alloc == call.prims[Len(call.prims)]

\* errno as aligned_alloc left it
ErrnoAfterAlloc == IF Alloc.err # 0 THEN Alloc.err ELSE call.entryErrno

Indices(length) == [i \in 1 .. length |-> i - 1]

\* C1: a posix_memalign call with a valid power-of-two alignment and a nonzero
\* size either returns 0 with the allocator's non-null block in the output slot,
\* or returns a nonzero error code with the output slot untouched.
C1_SuccessOrErrorCode ==
  (IsAlloc /\ ValidAlignment(call.args[1]) /\ call.args[2] # 0) =>
    \/ call.ret = 0 /\ Alloc.p # NULL /\ call.after = Alloc.p
    \/ call.ret # 0 /\ call.after = call.before

\* C2: when aligned_alloc returns a non-null block p, posix_memalign stores
\* exactly p in the output slot and returns 0.
C2_SuccessStoresBlock ==
  (IsAlloc /\ Alloc.p # NULL) => (call.after = Alloc.p /\ call.ret = 0)

C2_Witness ==
  /\ IsAlloc /\ call.args = <<16, 64>>
  /\ Alloc.p # NULL /\ Alloc.p % 16 = 0
  /\ call.before # Alloc.p

\* C3: with a non-null buffer and a length in 0..256, getentropy returns 0,
\* writes positions 0..length-1 once each, and leaves every position at or
\* past length as it was.
C3_FillsExactlyLength ==
  (IsEntropy /\ call.args[1] # NULL /\ call.args[2] \in 0 .. EntropyMax) =>
    /\ call.ret = 0
    /\ call.writes = Indices(call.args[2])
    /\ \A i \in BufIdx : i >= call.args[2] => call.after[i] = call.before[i]
    /\ call.args[2] = 0 => call.after = call.before

C3_Witness ==
  /\ IsEntropy /\ call.args[1] # NULL /\ call.args[2] = EntropyMax /\ call.ret = 0
  /\ \A i \in 0 .. (EntropyMax - 1) : call.after[i] # call.before[i]
  /\ call.after[EntropyMax] = call.before[EntropyMax]

\* C4: with a null buffer or a length above 256, getentropy returns -1, sets
\* errno to EINVAL, leaves the buffer as it was and does not call rand(): the
\* generator's state is the one the call found.
C4_RejectsInvalid ==
  (IsEntropy /\ (call.args[1] = NULL \/ call.args[2] > EntropyMax)) =>
    /\ call.ret = -1
    /\ errno = EINVAL
    /\ call.after = call.before
    /\ call.prims = <<>> /\ call.writes = <<>>
    /\ randState = call.entryRand

C4_Witness ==
  /\ IsEntropy /\ call.ret = -1
  /\ call.args = <<NULL, 0>>
  /\ call.entryErrno # EINVAL

\* C5: the result of a call depends on its own arguments (and on what the
\* primitive it calls answers) only, not on the calls made before it: it is
\* the result the same call has in a process that made no call yet.
C5_IndependentOfEarlierCalls ==
  /\ IsEntropy =>
       LET fresh == getentropy(call.args[1], call.args[2], call.before, RandSeed, 0)
       IN call.ret = fresh.ret /\ call.after = fresh.buf
  /\ IsAlloc =>
       call.ret = posix_memalign_ret(Alloc.p, Alloc.err)

\* C6: msleep calls k_msleep exactly once, with its own argument, and returns
\* the value k_msleep returned.
C6_PureForwarding ==
  IsSleep =>
    /\ Len(call.prims) = 1
    /\ call.prims[1].args = call.args[1]
    /\ call.ret = call.prims[1].ret

C6_Witness ==
  /\ IsSleep /\ call.args[1] = Int32Max
  /\ call.ret = Int32Max - 1

\* C7 as stated: msleep(0) returns 0, and msleep(ms) with ms > 0 returns no
\* earlier than ms milliseconds after the call began, also when k_msleep is
\* woken early.
C7_NeverEarly ==
  IsSleep =>
    /\ call.args[1] = 0 => call.ret = 0
    /\ call.args[1] > 0 => call.elapsed >= call.args[1]

\* C7 amended: msleep(0) returns 0; msleep(ms) with ms > 0 that returns 0
\* returns no earlier than ms milliseconds after the call began, and one that
\* returns r # 0 returns r > 0, the time left, no earlier than ms - r
\* milliseconds after the call began.
C7_NotEarlyUnlessWoken ==
  IsSleep =>
    /\ call.args[1] = 0 => call.ret = 0
    /\ call.args[1] > 0 =>
         /\ call.ret = 0 => call.elapsed >= call.args[1]
         /\ call.ret # 0 => (call.ret > 0 /\ call.elapsed >= call.args[1] - call.ret)

C7_Witness ==
  /\ IsSleep /\ call.args[1] = 2
  /\ call.ret = 1 /\ call.elapsed = 1

\* C9: a successful getentropy call calls rand() exactly length times, fills
\* the buffer in increasing index order, and stores in byte i the i-th value
\* rand() returned, modulo 256, a value in 0..255.
C9_BytesAreRandMod256 ==
  (IsEntropy /\ call.ret = 0) =>
    /\ Len(call.prims) = call.args[2]
    /\ call.args[2] <= EntropyMax
    /\ call.writes = Indices(call.args[2])
    /\ \A i \in 0 .. (call.args[2] - 1) :
         /\ call.after[i] = call.prims[i + 1] % 256
         /\ call.after[i] \in 0 .. 255

C9_Witness ==
  /\ IsEntropy /\ call.ret = 0 /\ call.args[2] = EntropyMax
  /\ \E i \in 0 .. (EntropyMax - 1) : call.prims[i + 1] > 255
  /\ \E i, j \in 0 .. (EntropyMax - 1) : call.after[i] # call.after[j]

\* C10: a posix_memalign call calls aligned_alloc exactly once, with its own
\* alignment and size, whether or not the alignment is valid; it leaves errno
\* as aligned_alloc left it, and when aligned_alloc fails it returns that errno.
C10_SingleAttempt ==
  IsAlloc =>
    /\ Len(call.prims) = 1
    /\ call.prims[1].args = call.args
    /\ errno = ErrnoAfterAlloc
    /\ Alloc.p = NULL => call.ret = ErrnoAfterAlloc

C10_Witness ==
  /\ IsAlloc /\ ~ValidAlignment(call.args[1])
  /\ Alloc.p = NULL /\ Alloc.err = 0
  /\ call.entryErrno = EINVAL /\ call.ret = EINVAL

====
